---- MODULE Spec2Model ----
(***************************************************************************)
(* chaim-cli: snapshot discovery (src/services/snapshot-discovery.ts) and  *)
(* the generate command that consumes it (src/commands/generate.ts and the *)
(* multi-snapshot generate command kept in src/commands/validate.ts).      *)
(*                                                                         *)
(* Strings that the code takes apart (file names) are sequences of         *)
(* one-character strings, so that endsWith, slice and the UUID regular     *)
(* expression are computed and not assumed.  A thrown exception is the     *)
(* value Throw(..) and is propagated by every caller the way a JavaScript  *)
(* exception unwinds.  The content of a snapshot file is taken to be the   *)
(* JSON text chaim-cdk wrote; it is identified by the path of its file.    *)
(***************************************************************************)
EXTENDS Integers, Sequences, FiniteSets, TLC

VARIABLES
  snapshotDirExists,  \* the snapshot root directory exists
  modeDirs,           \* the mode sub-directories that exist under the root
  entries,            \* directory entries: <<mode, name>> -> [isFile, mtime]
  last,               \* the last discovery call: its arguments and what it returned
  rerun,              \* resolveSnapshot called again on the unchanged directory
  command,            \* the file whose generateCommand runs, "none" outside a run
  options,            \* the options commander hands to generateCommand
  pc,                 \* where the run of generateCommand stands
  exitCalls,          \* the codes passed to process.exit (the first call ends the run)
  output,             \* the lines shown on the terminal, in order
  consoleMuted,       \* console.log and console.error are replaced by no-ops
  trace,              \* the calls made to doctor, discovery and the generator, in order
  resolvedSnapshot,   \* generate.ts: what resolveSnapshot returned
  resolvedSnapshots,  \* validate.ts: what resolveAllSnapshots returned
  results,            \* validate.ts: the results array of generateFromSnapshots
  cursor,             \* validate.ts: position of the nested for loops, in processing order
  fnInput,            \* the arguments of a call of one of the pure functions
  fnResult            \* what the function returned, NotApplied before the call

dirVars == <<snapshotDirExists, modeDirs, entries, last, rerun>>
cmdVars == <<command, options, pc, exitCalls, output, consoleMuted, trace,
             resolvedSnapshot, resolvedSnapshots, results, cursor>>
fnVars == <<fnInput, fnResult>>
vars == <<dirVars, cmdVars, fnVars>>

----------------------------------------------------------------------------
(* Bounds of the model *)

\* at most this many entries under the snapshot root (both mode directories)
MaxEntries == 3
\* modification times are 1..MaxTime
MaxTime == 2

----------------------------------------------------------------------------
(* Types of snapshot-discovery.ts *)

SnapshotMode == {"preview", "registered"}
SnapshotModeOption == SnapshotMode \cup {"auto"}

\* JavaScript null and undefined, as values
Null == [kind |-> "null"]
Undefined == [kind |-> "undefined"]

\* how a call that may throw completes: it returns a value or throws an error
Return(v) == [kind |-> "return", value |-> v]
Throw(code) == [kind |-> "throw", code |-> code]
IsThrow(c) == c.kind = "throw"

----------------------------------------------------------------------------
(* File names *)

DotJson == <<".", "j", "s", "o", "n">>
DotTxt == <<".", "t", "x", "t">>
Dash == <<"-">>

StackA == <<"A">>
StackB == <<"B">>
\* a stack that owns no snapshot in any directory of the model
StackC == <<"C">>

\* 550e8400-e29b-41d4-a716-446655440000
Uuid1 == <<"5","5","0","e","8","4","0","0","-","e","2","9","b","-","4","1","d","4","-",
           "a","7","1","6","-","4","4","6","6","5","5","4","4","0","0","0","0">>
\* 6BA7B810-9DAD-11D1-80B4-00C04FD430C8 (upper case)
Uuid2 == <<"6","B","A","7","B","8","1","0","-","9","D","A","D","-","1","1","D","1","-",
           "8","0","B","4","-","0","0","C","0","4","F","D","4","3","0","C","8">>
\* 550e8400-e29b-41d4-a716-44665544000g : the right shape, one character not hex
NotAUuid == <<"5","5","0","e","8","4","0","0","-","e","2","9","b","-","4","1","d","4","-",
              "a","7","1","6","-","4","4","6","6","5","5","4","4","0","0","0","g">>

Uuids == {Uuid1, Uuid2}

\* how chaim-cdk names the files it writes
PreviewName(stack) == stack \o DotJson
RegisteredName(stack, eventId) == stack \o Dash \o eventId \o DotJson

\* the names the preview directory may hold: two stacks, a name with an empty
\* stack part, a file that is no .json
PreviewFiles ==
  { PreviewName(StackA), PreviewName(StackB), DotJson,
    <<"r", "e", "a", "d", "m", "e">> \o DotTxt }

\* the names the registered directory may hold: two events of stack A, one of
\* stack B, a name whose last part is no UUID
RegisteredFiles ==
  { RegisteredName(StackA, Uuid1), RegisteredName(StackA, Uuid2),
    RegisteredName(StackB, Uuid1),
    RegisteredName(StackA, NotAUuid) }

Times == 1..MaxTime

\* what statSync tells of an entry
Stats == [isFile : {TRUE}, mtime : Times] \cup [isFile : {FALSE}, mtime : {1}]

Paths == ({"preview"} \X PreviewFiles) \cup ({"registered"} \X RegisteredFiles)

----------------------------------------------------------------------------
(* The file system as the code sees it *)

\* fs.existsSync(path.join(snapshotDir, mode))
ExistsSync(mode) == snapshotDirExists /\ mode \in modeDirs

\* the names present in a mode directory
NamesIn(mode) == {p[2] : p \in {q \in DOMAIN entries : q[1] = mode}}

\* every order in which a directory listing may enumerate the names in S
Orderings(S) ==
  {f \in [1..Cardinality(S) -> S] : \A i, j \in 1..Cardinality(S) : i # j => f[i] # f[j]}

\* fs.readdirSync(modeDir); files is the enumeration the system call delivers
ReaddirSync(mode, files) == IF ExistsSync(mode) THEN Return(files) ELSE Throw("ENOENT")

\* fs.statSync(filePath)
StatSync(filePath) == entries[filePath]

\* path.join(modeDir, file)
PathJoin(mode, file) == <<mode, file>>

----------------------------------------------------------------------------
(* Strings *)

\* String.prototype.endsWith
EndsWith(s, suffix) ==
  /\ Len(s) >= Len(suffix)
  /\ SubSeq(s, Len(s) - Len(suffix) + 1, Len(s)) = suffix

\* a JavaScript string in a condition: undefined and '' are both false
Truthy(s) == s # <<>>

HexDigits ==
  {"0","1","2","3","4","5","6","7","8","9","a","b","c","d","e","f","A","B","C","D","E","F"}

\* [0-9a-f]{8}-[0-9a-f]{4}-[0-9a-f]{4}-[0-9a-f]{4}-[0-9a-f]{12} with the i flag
MatchUuidLax(u) ==
  /\ Len(u) = 36
  /\ \A i \in {9, 14, 19, 24} : u[i] = "-"
MatchUuid(u) ==
  /\ Len(u) = 36
  /\ \A i \in 1..36 : IF i \in {9, 14, 19, 24} THEN u[i] = "-" ELSE u[i] \in HexDigits

----------------------------------------------------------------------------
(* parsePreviewFilename, parseRegisteredFilename *)

ParsePreviewFilename(filename) ==
  IF ~EndsWith(filename, DotJson) THEN Null
  ELSE LET stackName == SubSeq(filename, 1, Len(filename) - 5)
       IN  IF ~Truthy(stackName) THEN Null ELSE [stackName |-> stackName]

\* uuidPattern = /^(.+)-(<uuid>)$/i : the UUID is the last 36 characters, a dash
\* precedes it and at least one character precedes the dash
ParseRegisteredFilename(filename) ==
  IF ~EndsWith(filename, DotJson) THEN Null
  ELSE LET baseName == SubSeq(filename, 1, Len(filename) - 5)
           n == Len(baseName)
           match == /\ n >= 38
                    /\ baseName[n - 36] = "-"
                    /\ MatchUuid(SubSeq(baseName, n - 35, n))
       IN  IF ~match THEN Null
           ELSE [stackName |-> SubSeq(baseName, 1, n - 37),
                 eventId |-> SubSeq(baseName, n - 35, n)]

----------------------------------------------------------------------------
(* listSnapshots *)

\* the body of the loop over the directory listing: what one file pushes
SnapshotOf(mode, file) ==
  IF ~EndsWith(file, DotJson) THEN <<>>
  ELSE LET filePath == PathJoin(mode, file)
           stat == StatSync(filePath)
       IN  IF ~stat.isFile THEN <<>>
           ELSE IF mode = "preview"
           THEN LET parsed == ParsePreviewFilename(file)
                IN  IF parsed # Null
                    THEN <<[filePath |-> filePath, stackName |-> parsed.stackName,
                            mode |-> "preview", mtime |-> stat.mtime]>>
                    ELSE <<>>
           ELSE LET parsed == ParseRegisteredFilename(file)
                IN  IF parsed # Null
                    THEN <<[filePath |-> filePath, stackName |-> parsed.stackName,
                            mode |-> "registered", mtime |-> stat.mtime,
                            eventId |-> parsed.eventId]>>
                    ELSE <<>>

\* for (const file of files) { ... snapshots.push(...) }
RECURSIVE Scan(_, _)
Scan(mode, files) ==
  IF files = <<>> THEN <<>>
  ELSE SnapshotOf(mode, Head(files)) \o Scan(mode, Tail(files))

\* the comparator of the sort: negative when a goes before b
CompareAscending(a, b) == a.mtime - b.mtime
Compare(a, b) == b.mtime - a.mtime

\* Array.prototype.sort is stable: x goes behind every element that does not
\* compare greater than it
RECURSIVE InsertSorted(_, _)
InsertSorted(sorted, x) ==
  IF sorted = <<>> THEN <<x>>
  ELSE IF Compare(Head(sorted), x) <= 0
       THEN <<Head(sorted)>> \o InsertSorted(Tail(sorted), x)
       ELSE <<x>> \o sorted

RECURSIVE SortFrom(_, _)
SortFrom(sorted, rest) ==
  IF rest = <<>> THEN sorted
  ELSE SortFrom(InsertSorted(sorted, Head(rest)), Tail(rest))

Sort(snapshots) == SortFrom(<<>>, snapshots)

ListSnapshotsNoExistsCheck(mode, files) ==
  LET listing == ReaddirSync(mode, files)
  IN  IF IsThrow(listing) THEN listing ELSE Return(Sort(Scan(mode, listing.value)))
ListSnapshots(mode, files) ==
  IF ~ExistsSync(mode) THEN Return(<<>>)
  ELSE LET listing == ReaddirSync(mode, files)
       IN  IF IsThrow(listing) THEN listing ELSE Return(Sort(Scan(mode, listing.value)))

----------------------------------------------------------------------------
(* listSnapshotsForStack, getLatestSnapshot, hasSnapshots *)

ListSnapshotsForStackUnfiltered(mode, stackName, files) == ListSnapshots(mode, files)
ListSnapshotsForStack(mode, stackName, files) ==
  LET allSnapshots == ListSnapshots(mode, files)
  IN  IF IsThrow(allSnapshots) THEN allSnapshots
      ELSE Return(SelectSeq(allSnapshots.value, LAMBDA s : s.stackName = stackName))

GetLatestSnapshot(mode, stackName, files) ==
  LET snapshots == IF Truthy(stackName)
                   THEN ListSnapshotsForStack(mode, stackName, files)
                   ELSE ListSnapshots(mode, files)
  IN  IF IsThrow(snapshots) THEN snapshots
      ELSE IF snapshots.value = <<>> THEN Return(Undefined)
      ELSE Return(snapshots.value[1])

HasSnapshots(mode, files) ==
  IF ~ExistsSync(mode) THEN Return(FALSE)
  ELSE LET listing == ReaddirSync(mode, files)
       IN  IF IsThrow(listing) THEN listing
           ELSE Return(\E i \in 1..Len(listing.value) : EndsWith(listing.value[i], DotJson))

----------------------------------------------------------------------------
(* resolveSnapshot *)

\* the auto branch with a stack name (lines 224-232): the mode to use, or "none"
\* where the code returns undefined at once
AutoModeForStack(stackName, rd) ==
  LET registered == ListSnapshotsForStack("registered", stackName, rd["registered"])
      preview == ListSnapshotsForStack("preview", stackName, rd["preview"])
  IN  IF IsThrow(registered) THEN registered
      ELSE IF Len(registered.value) > 0 THEN Return("registered")
      ELSE IF IsThrow(preview) THEN preview
      ELSE IF Len(preview.value) > 0 THEN Return("preview")
      ELSE Return("none")

\* the auto branch without a stack name (lines 233-242)
AutoModeAnyStackPreviewFirst(rd) ==
  LET registered == HasSnapshots("registered", rd["registered"])
      preview == HasSnapshots("preview", rd["preview"])
  IN  IF IsThrow(preview) THEN preview
      ELSE IF preview.value THEN Return("preview")
      ELSE IF IsThrow(registered) THEN registered
      ELSE IF registered.value THEN Return("registered")
      ELSE Return("none")
AutoModeAnyStack(rd) ==
  LET registered == HasSnapshots("registered", rd["registered"])
      preview == HasSnapshots("preview", rd["preview"])
  IN  IF IsThrow(registered) THEN registered
      ELSE IF registered.value THEN Return("registered")
      ELSE IF IsThrow(preview) THEN preview
      ELSE IF preview.value THEN Return("preview")
      ELSE Return("none")

\* fs.readFileSync + JSON.parse: the content of the file at filePath
ReadSnapshot(filePath) == [contentOf |-> filePath]

\* lines 220-245: the mode to use, or "none" where the code returns undefined
\* at once; rd[mode] is the enumeration readdirSync delivers for the mode directory
SelectModeAlwaysAuto(requestedMode, stackName, rd) ==
  IF Truthy(stackName) THEN AutoModeForStack(stackName, rd) ELSE AutoModeAnyStack(rd)
SelectMode(requestedMode, stackName, rd) ==
  IF requestedMode = "auto"
  THEN IF Truthy(stackName) THEN AutoModeForStack(stackName, rd)
       ELSE AutoModeAnyStack(rd)
  ELSE Return(requestedMode)

\* The field reads of the completion lists the files handed to readFileSync.
ResolveSnapshot(requestedMode, stackName, rd) ==
  LET selection == SelectMode(requestedMode, stackName, rd)
  IN  IF IsThrow(selection) THEN selection @@ [reads |-> {}]
      ELSE IF selection.value = "none" THEN Return(Undefined) @@ [reads |-> {}]
      ELSE LET modeToUse == selection.value
               snapshotInfo == GetLatestSnapshot(modeToUse, stackName, rd[modeToUse])
           IN  IF IsThrow(snapshotInfo) THEN snapshotInfo @@ [reads |-> {}]
               ELSE IF snapshotInfo.value = Undefined THEN Return(Undefined) @@ [reads |-> {}]
               ELSE Return([modeUsed |-> modeToUse,
                            filePath |-> snapshotInfo.value.filePath,
                            snapshot |-> ReadSnapshot(snapshotInfo.value.filePath),
                            stackName |-> snapshotInfo.value.stackName])
                    @@ [reads |-> {snapshotInfo.value.filePath}]

----------------------------------------------------------------------------
(* Calls of the discovery functions on a directory *)

NoCall == [op |-> "none", mode |-> "none", stackName |-> <<>>, out |-> Return(Undefined)]

\* the stack filters tried: none (<<>>), a stack with snapshots beside those of
\* stack B, and a stack with no snapshot at all
StackFilters == {<<>>, StackA, StackC}

\* one enumeration per mode directory
Listings ==
  {[m \in SnapshotMode |-> IF m = "preview" THEN p ELSE r] :
     p \in Orderings(NamesIn("preview")), r \in Orderings(NamesIn("registered"))}

CallListSnapshots ==
  /\ last = NoCall
  /\ \E mode \in SnapshotMode : \E files \in Orderings(NamesIn(mode)) :
       last' = [op |-> "listSnapshots", mode |-> mode, stackName |-> <<>>,
                out |-> ListSnapshots(mode, files)]
  /\ UNCHANGED <<snapshotDirExists, modeDirs, entries, rerun, cmdVars, fnVars>>

CallHasSnapshots ==
  /\ last = NoCall
  /\ \E mode \in SnapshotMode : \E files \in Orderings(NamesIn(mode)) :
       last' = [op |-> "hasSnapshots", mode |-> mode, stackName |-> <<>>,
                out |-> HasSnapshots(mode, files)]
  /\ UNCHANGED <<snapshotDirExists, modeDirs, entries, rerun, cmdVars, fnVars>>

CallGetLatestSnapshot ==
  /\ last = NoCall
  /\ \E mode \in SnapshotMode, stackName \in StackFilters :
       \E files \in Orderings(NamesIn(mode)) :
         last' = [op |-> "getLatestSnapshot", mode |-> mode, stackName |-> stackName,
                  out |-> GetLatestSnapshot(mode, stackName, files)]
  /\ UNCHANGED <<snapshotDirExists, modeDirs, entries, rerun, cmdVars, fnVars>>

CallResolveSnapshot ==
  /\ last = NoCall
  /\ \E requestedMode \in SnapshotModeOption, stackName \in StackFilters :
       \E rd \in Listings :
         last' = [op |-> "resolveSnapshot", mode |-> requestedMode,
                  stackName |-> stackName,
                  out |-> ResolveSnapshot(requestedMode, stackName, rd)]
  /\ UNCHANGED <<snapshotDirExists, modeDirs, entries, rerun, cmdVars, fnVars>>

\* the same resolveSnapshot call once more, nothing on disk having changed; the
\* directory listing may enumerate the entries in another order
CallResolveSnapshotAgain ==
  /\ last.op = "resolveSnapshot"
  /\ rerun = NoCall
  /\ \E rd \in Listings :
       rerun' = [last EXCEPT !.out = ResolveSnapshot(last.mode, last.stackName, rd)]
  /\ UNCHANGED <<snapshotDirExists, modeDirs, entries, last, cmdVars, fnVars>>

\* no pure function is being called
NoInput == [op |-> "none"]
NotApplied == [kind |-> "not applied"]
FnIdle == fnInput = NoInput /\ fnResult = NotApplied

\* resolveSnapshot has not been called yet
Pending == [kind |-> "pending"]

\* no generate command is running
CmdIdle ==
  /\ command = "none"
  /\ options = [package |-> "", skipChecks |-> FALSE, mode |-> "", stack |-> <<>>,
                table |-> ""]
  /\ pc = "idle"
  /\ exitCalls = <<>>
  /\ output = <<>>
  /\ consoleMuted = FALSE
  /\ trace = <<>>
  /\ resolvedSnapshot = Pending
  /\ resolvedSnapshots = <<>>
  /\ results = <<>>
  /\ cursor = 0

\* the directories a run may find
Init ==
  /\ \E present \in {S \in SUBSET Paths : Cardinality(S) <= MaxEntries} :
       entries \in [present -> Stats]
  /\ modeDirs \in {D \in SUBSET SnapshotMode : \A p \in DOMAIN entries : p[1] \in D}
  /\ snapshotDirExists \in {b \in BOOLEAN : modeDirs # {} => b}
  /\ last = NoCall
  /\ rerun = NoCall
  /\ CmdIdle
  /\ FnIdle

Next ==
  \/ CallListSnapshots
  \/ CallHasSnapshots
  \/ CallGetLatestSnapshot
  \/ CallResolveSnapshot
  \/ CallResolveSnapshotAgain

Spec == Init /\ [][Next]_vars

----------------------------------------------------------------------------
(* The generate command: what both versions share *)

\* at most this many directory entries when generate.ts runs
MaxCmdEntries == 1
\* at most this many snapshots come back from resolveAllSnapshots
MaxSnapshots == 3

\* the two generateCommand functions of the sources, named by their file
Commands == {"generate.ts", "validate.ts"}

\* !s on an option string: undefined and '' are both falsy, '' stands for both
TruthyStr(s) == s # ""

\* interface GenerateOptions of generate.ts; "latest" is a mode the CLI does not know
GenerateOptions ==
  [package : {"", "com.example.model"}, skipChecks : BOOLEAN,
   mode : {"", "auto", "preview", "registered", "latest"},
   stack : {<<>>, StackA}, table : {"", "Users"}]

\* interface GenerateOptions of validate.ts: no mode and no table option; the
\* runs of the model pass no stack filter
GenerateAllOptions ==
  [package : {"", "com.example.model"}, skipChecks : BOOLEAN,
   mode : {""}, stack : {<<>>}, table : {""}]

\* a line on the terminal
Line(msg) == [msg |-> msg]

\* console.log / console.error: nothing is shown while the console is muted
ConsolePrint(out, muted, line) == IF muted THEN out ELSE Append(out, line)

\* ora's spinner writes to the stream itself, not through console.*
SpinnerPrint(out, line) == Append(out, line)

\* the catch block of generateCommand
GenerationFailed == Line("Generation failed")

\* the process has ended through process.exit
Exit(code) == [kind |-> "exit", code |-> code]

\* process.exit(code)
ProcessExit(code) == pc' = "exited" /\ exitCalls' = Append(exitCalls, code)

\* the required-option test and the skipChecks test that open generateCommand
ValidateOptionsAfterChecks ==
  /\ command \in Commands
  /\ pc = "generateCommand"
  /\ IF ~TruthyStr(options.package) /\ options.skipChecks
     THEN /\ output' = ConsolePrint(output, consoleMuted, Line("Error: --package is required"))
          /\ ProcessExit(1)
     ELSE /\ pc' = IF ~options.skipChecks THEN "runPreGenerationChecks" ELSE "resolve"
          /\ UNCHANGED <<output, exitCalls>>
  /\ UNCHANGED <<dirVars, fnVars, command, options, consoleMuted, trace, resolvedSnapshot,
                 resolvedSnapshots, results, cursor>>
ValidateOptions ==
  /\ command \in Commands
  /\ pc = "generateCommand"
  /\ IF ~TruthyStr(options.package)
     THEN /\ output' = ConsolePrint(output, consoleMuted, Line("Error: --package is required"))
          /\ ProcessExit(1)
     ELSE /\ pc' = IF ~options.skipChecks THEN "runPreGenerationChecks" ELSE "resolve"
          /\ UNCHANGED <<output, exitCalls>>
  /\ UNCHANGED <<dirVars, fnVars, command, options, consoleMuted, trace, resolvedSnapshot,
                 resolvedSnapshots, results, cursor>>

\* runPreGenerationChecks: the console is muted, doctorCommand is awaited, and the
\* console is put back only when doctorCommand resolves; a rejection is rethrown
\* and lands in the catch block of generateCommand
RunPreGenerationChecksSwallowing ==
  /\ command \in Commands
  /\ pc = "runPreGenerationChecks"
  /\ trace' = Append(trace, [fn |-> "doctorCommand"])
  /\ \E doctor \in {"resolves", "rejects"} :
       IF doctor = "resolves"
       THEN /\ consoleMuted' = FALSE
            /\ output' = SpinnerPrint(output, Line("Pre-generation checks passed"))
            /\ pc' = "resolve"
            /\ UNCHANGED exitCalls
       ELSE /\ consoleMuted' = TRUE
            /\ output' = SpinnerPrint(output, Line("Pre-generation checks failed"))
            /\ pc' = "resolve"
            /\ UNCHANGED exitCalls
  /\ UNCHANGED <<dirVars, fnVars, command, options, resolvedSnapshot, resolvedSnapshots,
                 results, cursor>>
RunPreGenerationChecks ==
  /\ command \in Commands
  /\ pc = "runPreGenerationChecks"
  /\ trace' = Append(trace, [fn |-> "doctorCommand"])
  /\ \E doctor \in {"resolves", "rejects"} :
       IF doctor = "resolves"
       THEN /\ consoleMuted' = FALSE
            /\ output' = SpinnerPrint(output, Line("Pre-generation checks passed"))
            /\ pc' = "resolve"
            /\ UNCHANGED exitCalls
       ELSE /\ consoleMuted' = TRUE
            /\ output' = ConsolePrint(SpinnerPrint(output, Line("Pre-generation checks failed")),
                                      TRUE, GenerationFailed)
            /\ ProcessExit(1)
  /\ UNCHANGED <<dirVars, fnVars, command, options, resolvedSnapshot, resolvedSnapshots,
                 results, cursor>>

----------------------------------------------------------------------------
(* generateCommand of generate.ts: one snapshot *)

\* normalizeMode: the mode to request, or the process exits on an unknown mode
NormalizeModeUnchecked(mode) ==
  IF ~TruthyStr(mode) \/ mode = "auto" THEN Return("auto")
  ELSE Return(mode)
NormalizeMode(mode) ==
  IF ~TruthyStr(mode) \/ mode = "auto" THEN Return("auto")
  ELSE IF mode = "preview" \/ mode = "registered" THEN Return(mode)
  ELSE Exit(1)

\* listSnapshots(snapshotDir) as printSnapshotNotFoundError calls it: the mode
\* argument is missing and path.join(snapshotDir, undefined) throws a TypeError
ListSnapshotsWithoutMode == Throw("ERR_INVALID_ARG_TYPE")

\* printSnapshotNotFoundError of generate.ts: the lines printed, and how it ends
PrintSnapshotNotFoundError(out, muted, mode, stackFilter) ==
  LET header == ConsolePrint(out, muted, Line("No snapshot found"))
      location == ConsolePrint(header, muted, Line("Expected snapshot location"))
      stackLine == IF Truthy(stackFilter)
                   THEN ConsolePrint(location, muted, Line("Searched for stack"))
                   ELSE location
      modeLine == IF mode # "auto"
                  THEN ConsolePrint(stackLine, muted, Line("Searched in mode"))
                  ELSE stackLine
      existingSnapshots == ListSnapshotsWithoutMode
  IN  existingSnapshots @@ [output |-> modeLine]

\* the branch of generateCommand taken when resolveSnapshot returns undefined:
\* the diagnostic, then process.exit(1); an exception thrown while the diagnostic
\* is printed is caught by generateCommand, which exits with 1 as well
NoSnapshotFoundFallsThrough(requestedMode) ==
  /\ output' = PrintSnapshotNotFoundError(output, consoleMuted, requestedMode,
                                         options.stack).output
  /\ pc' = "returned"
  /\ UNCHANGED exitCalls
NoSnapshotFound(requestedMode) ==
  LET printed == PrintSnapshotNotFoundError(output, consoleMuted, requestedMode,
                                            options.stack)
  IN  /\ output' = IF IsThrow(printed)
                   THEN ConsolePrint(printed.output, consoleMuted, GenerationFailed)
                   ELSE printed.output
      /\ ProcessExit(1)

\* generateCommand from normalizeMode to the call of generateFromSnapshot
ResolveAndDispatch ==
  /\ command = "generate.ts"
  /\ pc = "resolve"
  /\ \E requestedMode \in {NormalizeMode(options.mode)} :
       IF requestedMode.kind = "exit"
       THEN /\ output' = ConsolePrint(output, consoleMuted, Line("Error: Invalid mode"))
            /\ ProcessExit(requestedMode.code)
            /\ UNCHANGED <<trace, resolvedSnapshot>>
       ELSE \E found \in {ResolveSnapshot(requestedMode.value, options.stack, rd) :
                             rd \in Listings} :
              /\ trace' = Append(trace, [fn |-> "resolveSnapshot",
                                         mode |-> requestedMode.value])
              /\ IF IsThrow(found)
                 THEN /\ output' = ConsolePrint(output, consoleMuted, GenerationFailed)
                      /\ ProcessExit(1)
                      /\ UNCHANGED resolvedSnapshot
                 ELSE /\ resolvedSnapshot' = found.value
                      /\ IF found.value # Undefined
                         THEN /\ pc' = "generateFromSnapshot"
                              /\ UNCHANGED <<output, exitCalls>>
                         ELSE NoSnapshotFound(requestedMode.value)
  /\ UNCHANGED <<dirVars, fnVars, command, options, consoleMuted, resolvedSnapshots, results, cursor>>

\* the dataStore block of a snapshot file: missing, named by tableName, named by
\* the legacy field name, or of another table
DataStores ==
  {Undefined,
   [tableName |-> "Users", name |-> ""],
   [tableName |-> "", name |-> "Users"],
   [tableName |-> "Orders", name |-> ""]}

\* the parts of a snapshot file generateFromSnapshot reads
SnapshotFiles == [hasSchema : BOOLEAN, dataStore : DataStores]

\* generateFromSnapshot, with the catch block of generateCommand behind it
GenerateFromSnapshot ==
  /\ command = "generate.ts"
  /\ pc = "generateFromSnapshot"
  /\ \E snapshot \in SnapshotFiles :
       LET dataStore == snapshot.dataStore
           header == ConsolePrint(output, consoleMuted, Line("Generating from snapshot"))
       IN  IF TruthyStr(options.table) /\ dataStore = Undefined
           THEN \* dataStore.tableName throws a TypeError
                /\ output' = ConsolePrint(header, consoleMuted, GenerationFailed)
                /\ ProcessExit(1)
                /\ UNCHANGED trace
           ELSE IF /\ TruthyStr(options.table)
                   /\ dataStore.tableName # options.table
                   /\ dataStore.name # options.table
           THEN /\ output' = ConsolePrint(header, consoleMuted,
                                          Line("Error: Table not found in snapshot"))
                /\ ProcessExit(1)
                /\ UNCHANGED trace
           ELSE /\ trace' = Append(trace, [fn |-> "generate", index |-> 1])
                /\ \E generator \in {"resolves", "rejects"} :
                     IF generator = "resolves" /\ snapshot.hasSchema /\ dataStore # Undefined
                     THEN /\ output' = ConsolePrint(
                                         SpinnerPrint(header, Line("SDK generated successfully")),
                                         consoleMuted, Line("Output directory"))
                          /\ pc' = "returned"
                          /\ UNCHANGED exitCalls
                     ELSE IF generator = "resolves"
                     THEN \* schema.entity or dataStore.tableName throws inside the try
                          /\ output' = ConsolePrint(
                                         SpinnerPrint(
                                           ConsolePrint(
                                             SpinnerPrint(header, Line("SDK generated successfully")),
                                             consoleMuted, Line("Output directory")),
                                           Line("Failed to generate SDK")),
                                         consoleMuted, GenerationFailed)
                          /\ ProcessExit(1)
                     ELSE /\ output' = ConsolePrint(
                                         SpinnerPrint(header, Line("Failed to generate SDK")),
                                         consoleMuted, GenerationFailed)
                          /\ ProcessExit(1)
  /\ UNCHANGED <<dirVars, fnVars, command, options, consoleMuted, resolvedSnapshot,
                 resolvedSnapshots, results, cursor>>

----------------------------------------------------------------------------
(* generateCommand of validate.ts: every matching snapshot *)

\* process.env.AWS_REGION and process.env.AWS_DEFAULT_REGION of the run
ProcessEnv == [AWS_REGION |-> "", AWS_DEFAULT_REGION |-> ""]

\* the schema and the dataStore block chaim-cdk writes for the one table of the model
UsersSchema == [entity |-> "entity", primaryKey |-> [partitionKey |-> "id", sortKey |-> ""]]
UsersDataStore ==
  [tableName |-> "Users", region |-> "us-east-1",
   tableArn |-> "arn:aws:dynamodb:us-east-1:123456789012:table/Users"]

\* the snapshot bodies resolveAllSnapshots may hand over: complete, without the
\* dataStore block, and the DELETE record of an entity, which carries no schema
SnapshotBodies ==
  {[action |-> "UPSERT", schema |-> UsersSchema, dataStore |-> UsersDataStore,
    context |-> [region |-> "us-east-1"]],
   [action |-> "UPSERT", schema |-> UsersSchema, dataStore |-> Undefined,
    context |-> [region |-> "us-east-1"]],
   [action |-> "DELETE", schema |-> Undefined, dataStore |-> UsersDataStore,
    context |-> [region |-> "us-east-1"]]}

\* interface ResolvedSnapshot as generateFromSnapshots reads it
ResolvedSnapshots ==
  [accountId : {"123456789012"}, region : {"us-east-1"},
   stackName : {"StackA", "StackB"}, datastoreType : {"dynamodb"},
   entityName : {"User", "Order"}, resourceName : {"Users"},
   snapshot : SnapshotBodies]

\* the lists resolveAllSnapshots or listSnapshots(snapshotDir) may return
SnapshotLists == UNION {[1..n -> ResolvedSnapshots] : n \in 0..MaxSnapshots}

\* the elements of a finite set of numbers, ascending
Ascending(S) ==
  CHOOSE s \in [1..Cardinality(S) -> S] : \A i, j \in 1..Cardinality(S) : i < j => s[i] < s[j]

\* the Map built by "if (!grouped.has(key)) grouped.set(key, []); push": one entry
\* per key in order of first appearance, its members (positions in the list) in
\* list order; keys[i] is the key of the i-th snapshot
GroupByDropsFirst(keys) ==
  LET firsts == {i \in 1..Len(keys) : \A j \in 1..(i - 1) : keys[j] # keys[i]}
      order == Ascending(firsts)
  IN  [g \in 1..Cardinality(firsts) |->
         [key |-> keys[order[g]],
          members |-> Ascending({i \in 1..Len(keys) :
                                   keys[i] = keys[order[g]] /\ i # order[g]})]]
GroupBy(keys) ==
  LET firsts == {i \in 1..Len(keys) : \A j \in 1..(i - 1) : keys[j] # keys[i]}
      order == Ascending(firsts)
  IN  [g \in 1..Cardinality(firsts) |->
         [key |-> keys[order[g]],
          members |-> Ascending({i \in 1..Len(keys) : keys[i] = keys[order[g]]})]]

\* `${snap.accountId}/${snap.region}/${snap.stackName}/${snap.datastoreType}`
GroupKey(snap) == <<snap.accountId, snap.region, snap.stackName, snap.datastoreType>>

\* the keys of the snapshots of a list, in list order
GroupKeys(snapshots) == [i \in DOMAIN snapshots |-> GroupKey(snapshots[i])]

\* `${snap.accountId}/${snap.region}/${snap.stackName}`
LocationKey(snap) == <<snap.accountId, snap.region, snap.stackName>>

\* the order in which the nested for loops visit the snapshots of the list
RECURSIVE ProcessingOrderLastGroupFirst(_)
ProcessingOrderLastGroupFirst(grouped) ==
  IF grouped = <<>> THEN <<>>
  ELSE ProcessingOrderLastGroupFirst(Tail(grouped)) \o Head(grouped).members
RECURSIVE ProcessingOrder(_)
ProcessingOrder(grouped) ==
  IF grouped = <<>> THEN <<>>
  ELSE Head(grouped).members \o ProcessingOrder(Tail(grouped))

\* resolveRegion; a region that is undefined is the falsy string ''
ResolveRegionKeepingUnknown(snapshotRegion, env) ==
  IF TruthyStr(snapshotRegion)
  THEN snapshotRegion
  ELSE IF TruthyStr(env.AWS_REGION) THEN env.AWS_REGION
  ELSE IF TruthyStr(env.AWS_DEFAULT_REGION) THEN env.AWS_DEFAULT_REGION
  ELSE "us-east-1"
ResolveRegion(snapshotRegion, env) ==
  IF TruthyStr(snapshotRegion) /\ snapshotRegion # "unknown"
  THEN snapshotRegion
  ELSE IF TruthyStr(env.AWS_REGION) THEN env.AWS_REGION
  ELSE IF TruthyStr(env.AWS_DEFAULT_REGION) THEN env.AWS_DEFAULT_REGION
  ELSE "us-east-1"

\* context?.region
ContextRegion(context) == IF context = Undefined THEN "" ELSE context.region

\* createTableMetadataFromSnapshot of validate.ts: dataStore.region is read at
\* once, so a snapshot without the dataStore block throws a TypeError
CreateTableMetadataFromSnapshot(dataStore, context, env) ==
  IF dataStore = Undefined THEN Throw("TypeError")
  ELSE LET contextRegion == ResolveRegion(ContextRegion(context), env)
           dataStoreRegion == ResolveRegion(dataStore.region, env)
           resolvedRegion == IF contextRegion # "us-east-1" \/ ~TruthyStr(dataStore.region)
                             THEN contextRegion
                             ELSE dataStoreRegion
       IN  Return([tableName |-> dataStore.tableName, region |-> resolvedRegion])

\* the diagnostic lists at most this many locations
ShownLocations == 5
\* and at most this many entities of each
ShownEntities == 3

\* snaps.slice(0, n)
Slice(s, n) == SubSeq(s, 1, IF Len(s) < n THEN Len(s) ELSE n)

\* the lines printed for one location of the diagnostic
RECURSIVE EntityLines(_, _)
EntityLines(existing, members) ==
  IF members = <<>> THEN <<>>
  ELSE <<[msg |-> "entity", entityName |-> existing[Head(members)].entityName,
          resourceName |-> existing[Head(members)].resourceName]>>
       \o EntityLines(existing, Tail(members))

\* the loop over the locations, shown of them printed so far
RECURSIVE LocationLinesCountingAll(_, _, _, _)
LocationLinesCountingAll(existing, grouped, shown, size) ==
  IF grouped = <<>> THEN <<>>
  ELSE IF shown >= ShownLocations
  THEN <<[msg |-> "more locations", count |-> size]>>
  ELSE <<[msg |-> "location", key |-> Head(grouped).key]>>
       \o EntityLines(existing, Slice(Head(grouped).members, ShownEntities))
       \o (IF Len(Head(grouped).members) > ShownEntities
           THEN <<[msg |-> "more entities",
                   count |-> Len(Head(grouped).members)]>>
           ELSE <<>>)
       \o LocationLinesCountingAll(existing, Tail(grouped), shown + 1, size)
\* the loop over the locations, shown of them printed so far
RECURSIVE LocationLines(_, _, _, _)
LocationLines(existing, grouped, shown, size) ==
  IF grouped = <<>> THEN <<>>
  ELSE IF shown >= ShownLocations
  THEN <<[msg |-> "more locations", count |-> size - ShownLocations]>>
  ELSE <<[msg |-> "location", key |-> Head(grouped).key]>>
       \o EntityLines(existing, Slice(Head(grouped).members, ShownEntities))
       \o (IF Len(Head(grouped).members) > ShownEntities
           THEN <<[msg |-> "more entities",
                   count |-> Len(Head(grouped).members) - ShownEntities]>>
           ELSE <<>>)
       \o LocationLines(existing, Tail(grouped), shown + 1, size)

\* console.error applied to each line in turn
RECURSIVE ConsolePrintAll(_, _, _)
ConsolePrintAll(out, muted, lines) ==
  IF lines = <<>> THEN out
  ELSE ConsolePrintAll(ConsolePrint(out, muted, Head(lines)), muted, Tail(lines))

\* printSnapshotNotFoundError of validate.ts; existingSnapshots is what
\* listSnapshots(snapshotDir) returns
PrintSnapshotsNotFoundError(out, muted, stackName, existingSnapshots) ==
  LET header == <<Line("No snapshot found"), Line("Expected snapshot location")>>
      filter == IF Truthy(stackName) THEN <<Line("Stack filter applied")>> ELSE <<>>
      grouped == GroupBy([i \in DOMAIN existingSnapshots |-> LocationKey(existingSnapshots[i])])
      listing == IF Len(existingSnapshots) > 0
                 THEN <<Line("Found snapshots (but none matched your criteria)")>>
                      \o LocationLines(existingSnapshots, grouped, 0, Len(grouped))
                      \o <<Line("Hint: Use --stack")>>
                 ELSE <<>>
  IN  ConsolePrintAll(out, muted, header \o filter \o listing)

\* the branch of generateCommand taken when resolveAllSnapshots returns nothing
NoSnapshotsFound ==
  \E existingSnapshots \in SnapshotLists :
    /\ output' = PrintSnapshotsNotFoundError(output, consoleMuted, options.stack,
                                            existingSnapshots)
    /\ ProcessExit(1)

\* generateCommand from resolveAllSnapshots to the loops of generateFromSnapshots
ResolveAllAndDispatch ==
  /\ command = "validate.ts"
  /\ pc = "resolve"
  /\ trace' = Append(trace, [fn |-> "resolveAllSnapshots"])
  /\ \E found \in SnapshotLists :
       /\ resolvedSnapshots' = found
       /\ IF Len(found) = 0
          THEN NoSnapshotsFound /\ UNCHANGED cursor
          ELSE /\ output' = ConsolePrint(output, consoleMuted,
                                         Line("Generating from LOCAL snapshot(s)"))
               /\ pc' = "generateFromSnapshots"
               /\ cursor' = 1
               /\ UNCHANGED exitCalls
  /\ UNCHANGED <<dirVars, fnVars, command, options, consoleMuted, resolvedSnapshot, results>>

\* one pass of the inner for loop: the table metadata, then the generator, whose
\* exception is caught and recorded; an exception of createTableMetadataFromSnapshot
\* leaves both loops, is rethrown and ends in the catch block of generateCommand
GenerateNext ==
  /\ command = "validate.ts"
  /\ pc = "generateFromSnapshots"
  /\ LET order == ProcessingOrder(GroupBy(GroupKeys(resolvedSnapshots)))
     IN  /\ cursor <= Len(order)
         /\ LET resolved == resolvedSnapshots[order[cursor]]
                tableMetadata == CreateTableMetadataFromSnapshot(
                                   resolved.snapshot.dataStore, resolved.snapshot.context,
                                   ProcessEnv)
            IN  IF IsThrow(tableMetadata)
                THEN /\ output' = ConsolePrint(
                                    SpinnerPrint(output, Line("Failed to generate SDK")),
                                    consoleMuted, GenerationFailed)
                     /\ ProcessExit(1)
                     /\ UNCHANGED <<trace, results, cursor>>
                ELSE /\ trace' = Append(trace, [fn |-> "generate", index |-> order[cursor]])
                     /\ \E success \in BOOLEAN :
                          results' = Append(results, [entity |-> resolved.entityName,
                                                      resource |-> resolved.resourceName,
                                                      success |-> success])
                     /\ cursor' = cursor + 1
                     /\ UNCHANGED <<pc, output, exitCalls>>
  /\ UNCHANGED <<dirVars, fnVars, command, options, consoleMuted, resolvedSnapshot, resolvedSnapshots>>

\* results.find(r => r.entity === snap.entityName && r.resource === snap.resourceName)?.success
RECURSIVE FindSuccess(_, _)
FindSuccess(rs, snap) ==
  IF rs = <<>> THEN FALSE
  ELSE IF Head(rs).entity = snap.entityName /\ Head(rs).resource = snap.resourceName
  THEN Head(rs).success
  ELSE FindSuccess(Tail(rs), snap)

\* the summary lines of one group
RECURSIVE MarkerLines(_, _, _)
MarkerLines(snapshots, members, rs) ==
  IF members = <<>> THEN <<>>
  ELSE <<[msg |-> IF FindSuccess(rs, snapshots[Head(members)]) THEN "ok" ELSE "failed",
          index |-> Head(members)]>>
       \o MarkerLines(snapshots, Tail(members), rs)

\* the summary lines of all groups
RECURSIVE SummaryLines(_, _, _)
SummaryLines(snapshots, grouped, rs) ==
  IF grouped = <<>> THEN <<>>
  ELSE <<[msg |-> "group", key |-> Head(grouped).key]>>
       \o MarkerLines(snapshots, Head(grouped).members, rs)
       \o SummaryLines(snapshots, Tail(grouped), rs)

\* the number of results with the given outcome
CountAny(rs, success) == Len(rs)
Count(rs, success) == Cardinality({i \in 1..Len(rs) : rs[i].success = success})

\* after the loops: the summary, then process.exit(1) when a result failed
Summarize ==
  /\ command = "validate.ts"
  /\ pc = "generateFromSnapshots"
  /\ LET grouped == GroupBy(GroupKeys(resolvedSnapshots))
         failCount == Count(results, FALSE)
     IN  /\ cursor > Len(ProcessingOrder(grouped))
         /\ output' = ConsolePrintAll(output, consoleMuted,
                        SummaryLines(resolvedSnapshots, grouped, results)
                        \o <<[msg |-> "total", successCount |-> Count(results, TRUE),
                              failCount |-> failCount]>>)
         /\ IF failCount > 0 THEN ProcessExit(1)
            ELSE pc' = "returned" /\ UNCHANGED exitCalls
  /\ UNCHANGED <<dirVars, fnVars, command, options, consoleMuted, trace, resolvedSnapshot,
                 resolvedSnapshots, results, cursor>>

----------------------------------------------------------------------------
(* Runs of the generate command *)

\* the directories generate.ts may find; validate.ts does not read them
InitCmd ==
  /\ command \in Commands
  /\ options \in (IF command = "generate.ts" THEN GenerateOptions ELSE GenerateAllOptions)
  /\ \E present \in {S \in SUBSET Paths :
                       Cardinality(S) <= (IF command = "generate.ts" THEN MaxCmdEntries ELSE 0)} :
       entries \in [present -> Stats]
  /\ modeDirs \in {D \in SUBSET SnapshotMode :
                     /\ \A p \in DOMAIN entries : p[1] \in D
                     /\ command = "validate.ts" => D = {}}
  /\ snapshotDirExists \in {b \in BOOLEAN : /\ modeDirs # {} => b
                                            /\ command = "validate.ts" => ~b}
  /\ last = NoCall
  /\ rerun = NoCall
  /\ pc = "generateCommand"
  /\ exitCalls = <<>>
  /\ output = <<>>
  /\ consoleMuted = FALSE
  /\ trace = <<>>
  /\ resolvedSnapshot = Pending
  /\ resolvedSnapshots = <<>>
  /\ results = <<>>
  /\ cursor = 0
  /\ FnIdle

NextCmd ==
  \/ ValidateOptions
  \/ RunPreGenerationChecks
  \/ ResolveAndDispatch
  \/ GenerateFromSnapshot
  \/ ResolveAllAndDispatch
  \/ GenerateNext
  \/ Summarize

SpecCmd == InitCmd /\ [][NextCmd]_vars

----------------------------------------------------------------------------
(* Table groups: key consistency (KeyConsistencyValidator) *)

\* at most this many entries in a table group handed to validate
MaxGroup == 3

\* the entity at a position of a group
EntityNames == <<"User", "Order", "Audit", "Event", "Invoice">>

\* a key field that is not declared; it differs from every field name
Absent == [kind |-> "absent"]
\* the key field of the given name
Named(name) == [name |-> name]

\* the entries of a table group as validate reads them: the record of a deleted
\* entity carries no schema, hence no key
GroupEntries ==
  [action : {"UPSERT"}, partitionKey : {Named("id"), Named("pk")},
   sortKey : {Absent, Named("sk")}]
  \cup [action : {"DELETE"}, partitionKey : {Absent}, sortKey : {Absent}]

\* the groups handed to validate
Groups == UNION {[1..n -> GroupEntries] : n \in 0..MaxGroup}

\* the partition key and the sort key of an entry
KeyOf(entry) == [partitionKey |-> entry.partitionKey, sortKey |-> entry.sortKey]

\* the result of validate: ok, or the mismatch with the entity, the expected key
\* and the key found
Ok == [ok |-> TRUE]
Fails(entityName, expected, found) ==
  [ok |-> FALSE, entityName |-> entityName, expected |-> expected, found |-> found]

\* the entries after position i compared with the baseline, in group order
RECURSIVE CheckFrom(_, _, _)
CheckFrom(group, i, baseline) ==
  IF i > Len(group) THEN Ok
  ELSE IF group[i].action = "DELETE" THEN CheckFrom(group, i + 1, baseline)
  ELSE IF KeyOf(group[i]) # baseline
  THEN Fails(EntityNames[i], baseline, KeyOf(group[i]))
  ELSE CheckFrom(group, i + 1, baseline)

\* the search for the first entry that is not a DELETE, which sets the baseline
RECURSIVE ValidateFromCountingDeletes(_, _)
ValidateFromCountingDeletes(group, i) ==
  IF i > Len(group) THEN Ok
  ELSE CheckFrom(group, i + 1, KeyOf(group[i]))
RECURSIVE ValidateFrom(_, _)
ValidateFrom(group, i) ==
  IF i > Len(group) THEN Ok
  ELSE IF group[i].action = "DELETE" THEN ValidateFrom(group, i + 1)
  ELSE CheckFrom(group, i + 1, KeyOf(group[i]))

\* validate(group)
Validate(group) == ValidateFrom(group, 1)

ApplyValidate ==
  /\ fnInput.op = "validate"
  /\ fnResult = NotApplied
  /\ fnResult' = Validate(fnInput.group)
  /\ UNCHANGED <<dirVars, cmdVars, fnInput>>

----------------------------------------------------------------------------
(* Table groups: what the orchestrator generates (GenerationOrchestrator) *)

\* the positions of a set, ascending, as a sequence
\* (the schemas collected from a group keep the order of the group)
InOrder(S) == Ascending(S)

\* one table group through validation, collision detection and generation:
\* colliding holds the positions of the entities whose field names collide.
\* calls lists the generator calls, each with the positions whose schemas it
\* carries; failed holds the positions recorded as failures.
PlanGroupCollisionTableWide(group, colliding) ==
  LET kept == {i \in DOMAIN group : group[i].action # "DELETE"}
  IN  IF ~Validate(group).ok \/ colliding # {}
      THEN [calls |-> <<>>, failed |-> kept]
      ELSE [calls |-> IF kept = {} THEN <<>> ELSE <<InOrder(kept)>>, failed |-> {}]
PlanGroup(group, colliding) ==
  LET kept == {i \in DOMAIN group : group[i].action # "DELETE"}
      sound == kept \ colliding
  IN  IF ~Validate(group).ok
      THEN [calls |-> <<>>, failed |-> kept]
      ELSE [calls |-> IF sound = {} THEN <<>> ELSE <<InOrder(sound)>>,
            failed |-> kept \cap colliding]

ApplyPlanGroup ==
  /\ fnInput.op = "planGroup"
  /\ fnResult = NotApplied
  /\ fnResult' = PlanGroup(fnInput.group, fnInput.colliding)
  /\ UNCHANGED <<dirVars, cmdVars, fnInput>>

----------------------------------------------------------------------------
(* Table groups: the identity of a table (TableGrouper) *)

\* the marker of a value infrastructure synthesis has not resolved yet
TokenMarker == "${Token["

\* identifiers are sequences of text pieces; <<>> is a missing identifier
ResourceIdentifiers ==
  {<<>>, <<"table/", "Users">>, <<"table/", TokenMarker, "TOKEN.41]}">>,
   <<TokenMarker, "TOKEN.58]}">>}
Arns ==
  {<<>>, <<"arn:aws:dynamodb:us-east-1:123456789012:", "table/Users">>,
   <<"arn:aws:dynamodb:us-east-1:123456789012:", TokenMarker, "TOKEN.41]}">>,
   <<"arn:aws:dynamodb:", TokenMarker, "TOKEN.58]}", "table/Users">>}

\* the fields of a resolved snapshot the identity is derived from
IdentityFields ==
  [resourceId : ResourceIdentifiers, arn : Arns, accountId : {"123456789012"},
   region : {"us-east-1"}, resourceName : {"Users", "Orders"}]

\* the value holds an unresolved token
HasPlaceholder(value) == \E i \in DOMAIN value : value[i] = TokenMarker

\* account:region:resourceName
CompositeKey(snap) == <<snap.accountId, ":", snap.region, ":", snap.resourceName>>

\* the identity of the table of a snapshot
TableIdentityTrustingArn(snap) ==
  IF snap.resourceId # <<>> /\ ~HasPlaceholder(snap.resourceId) THEN snap.resourceId
  ELSE IF snap.arn # <<>> THEN snap.arn
  ELSE CompositeKey(snap)
TableIdentity(snap) ==
  IF snap.resourceId # <<>> /\ ~HasPlaceholder(snap.resourceId) THEN snap.resourceId
  ELSE IF snap.arn # <<>> /\ ~HasPlaceholder(snap.arn) THEN snap.arn
  ELSE CompositeKey(snap)

\* the identities of two snapshots of one run
ApplyTableIdentity ==
  /\ fnInput.op = "tableIdentity"
  /\ fnResult = NotApplied
  /\ fnResult' = [first |-> TableIdentity(fnInput.first),
                  second |-> TableIdentity(fnInput.second)]
  /\ UNCHANGED <<dirVars, cmdVars, fnInput>>

----------------------------------------------------------------------------
(* Field names (FieldNameResolver / CollisionDetector) *)

\* at most this many fields in an entity
MaxFields == 3

\* raw field names, as sequences of characters: a_b, aB, a_B, ab, if, if_
RawNames ==
  {<<"a", "_", "b">>, <<"a", "B">>, <<"a", "_", "B">>, <<"a", "b">>,
   <<"i", "f">>, <<"i", "f", "_">>}

\* the target languages; java takes camelCase identifiers
Languages == {"java"}

\* the words java keeps for itself, among the names of the model
ReservedWords == {<<"i", "f">>}

\* the ordered field lists of an entity: no raw name twice
FieldLists ==
  {f \in UNION {[1..n -> RawNames] : n \in 0..MaxFields} :
     \A i, j \in DOMAIN f : i # j => f[i] # f[j]}

\* the upper-case form of a character
ToUpperCase(c) ==
  IF c = "a" THEN "A" ELSE IF c = "b" THEN "B" ELSE IF c = "i" THEN "I"
  ELSE IF c = "f" THEN "F" ELSE c

\* camelCase: an underscore is dropped and the character after it, unless it
\* opens the identifier, is put in upper case
RECURSIVE CamelCase(_, _, _)
CamelCase(name, done, raise) ==
  IF name = <<>> THEN done
  ELSE IF Head(name) = "_" THEN CamelCase(Tail(name), done, TRUE)
  ELSE CamelCase(Tail(name),
                 Append(done, IF raise /\ done # <<>> THEN ToUpperCase(Head(name))
                              ELSE Head(name)),
                 FALSE)

\* reserved-word escaping
EscapeReserved(identifier) ==
  IF identifier \in ReservedWords THEN Append(identifier, "_") ELSE identifier

\* the identifier of a raw name in the language
ResolveName(raw, language) == EscapeReserved(CamelCase(raw, <<>>, FALSE))

\* resolve(fields, targetLanguage): one mapping per field, in field order
ResolveFields(fields, language) ==
  [i \in DOMAIN fields |-> [raw |-> fields[i], resolved |-> ResolveName(fields[i], language)]]

\* the raw names at the given positions of the mappings
RECURSIVE RawNamesAt(_, _)
RawNamesAt(mappings, members) ==
  IF members = <<>> THEN <<>>
  ELSE <<mappings[Head(members)].raw>> \o RawNamesAt(mappings, Tail(members))

\* the groups with more than one raw name, as collisions
RECURSIVE CollisionsOfFirstPair(_, _)
CollisionsOfFirstPair(mappings, grouped) ==
  IF grouped = <<>> THEN <<>>
  ELSE (IF Len(Head(grouped).members) > 1
        THEN <<[identifier |-> Head(grouped).key,
                rawNames |-> RawNamesAt(mappings, SubSeq(Head(grouped).members, 1, 2))]>>
        ELSE <<>>)
       \o CollisionsOfFirstPair(mappings, Tail(grouped))
RECURSIVE CollisionsOf(_, _)
CollisionsOf(mappings, grouped) ==
  IF grouped = <<>> THEN <<>>
  ELSE (IF Len(Head(grouped).members) > 1
        THEN <<[identifier |-> Head(grouped).key,
                rawNames |-> RawNamesAt(mappings, Head(grouped).members)]>>
        ELSE <<>>)
       \o CollisionsOf(mappings, Tail(grouped))

\* detectCollisions(mappings): the mappings grouped by resolved identifier
DetectCollisions(mappings) ==
  CollisionsOf(mappings, GroupBy([i \in DOMAIN mappings |-> mappings[i].resolved]))

ApplyDetectCollisions ==
  /\ fnInput.op = "detectCollisions"
  /\ fnResult = NotApplied
  /\ fnResult' = [mappings |-> ResolveFields(fnInput.fields, fnInput.language),
                  collisions |-> DetectCollisions(
                                   ResolveFields(fnInput.fields, fnInput.language))]
  /\ UNCHANGED <<dirVars, cmdVars, fnInput>>

----------------------------------------------------------------------------
(* Region resolution of validate.ts, called on its own *)

\* the regions a snapshot declares: none, the sentinel of an unresolved CDK
\* token, and two regions
DeclaredRegions == {"", "unknown", "us-east-1", "eu-west-1"}

\* the values of AWS_REGION and AWS_DEFAULT_REGION: unset, the sentinel, a region
EnvRegions == {"", "unknown", "ap-south-1"}
Environments == [AWS_REGION : EnvRegions, AWS_DEFAULT_REGION : {"", "unknown", "eu-west-1"}]

\* the stack contexts of a snapshot: none, or one with its region
StackContexts == {Undefined} \cup [region : DeclaredRegions]

\* resolveRegion on the declared region of the dataStore block, and the table
\* metadata built from the block and the context
ApplyResolveRegion ==
  /\ fnInput.op = "resolveRegion"
  /\ fnResult = NotApplied
  /\ fnResult' = [region |-> ResolveRegion(fnInput.dataStore.region, fnInput.env),
                  metadata |-> CreateTableMetadataFromSnapshot(
                                 fnInput.dataStore, fnInput.context, fnInput.env)]
  /\ UNCHANGED <<dirVars, cmdVars, fnInput>>

----------------------------------------------------------------------------
(* The not-found diagnostic of validate.ts, called on its own *)

\* at most this many locations hold snapshots that did not match
MaxLocations == 6
\* at most this many entities in the first of them
MaxEntities == 4

\* the stacks of the locations and the table each of them owns
LocationStacks ==
  <<"StackA", "StackB", "StackC", "StackD", "StackE", "StackF", "StackG", "StackH">>
LocationTables ==
  <<"TableA", "TableB", "TableC", "TableD", "TableE", "TableF", "TableG", "TableH">>

\* the location of the i-th existing snapshot, when the first location holds
\* first snapshots and every other location others
LocationAt(i, first, others) ==
  IF i <= first THEN 1 ELSE 2 + ((i - first - 1) \div others)

\* its rank among the snapshots of its location
RankAt(i, first, others) ==
  IF i <= first THEN i ELSE 1 + ((i - first - 1) % others)

\* what listSnapshots(snapshotDir) returns for such a cache, location by location
ExistingSnapshots(locations, first, others) ==
  [i \in 1..(IF locations = 0 THEN 0 ELSE first + (locations - 1) * others) |->
     [accountId |-> "123456789012", region |-> "us-east-1",
      stackName |-> LocationStacks[LocationAt(i, first, others)],
      datastoreType |-> "dynamodb",
      entityName |-> EntityNames[RankAt(i, first, others)],
      resourceName |-> LocationTables[LocationAt(i, first, others)]]]

ApplyPrintSnapshotNotFoundError ==
  /\ fnInput.op = "printSnapshotNotFoundError"
  /\ fnResult = NotApplied
  /\ fnResult' = [lines |-> PrintSnapshotsNotFoundError(
                                <<>>, FALSE, fnInput.stackName,
                                ExistingSnapshots(fnInput.locations, fnInput.first,
                                                  fnInput.others))]
  /\ UNCHANGED <<dirVars, cmdVars, fnInput>>

----------------------------------------------------------------------------
(* validateCommand of validate.ts *)

\* a schema document validateSchema accepts
ValidSchemaDocument ==
  [schemaVersion |-> "v1",
   entity |-> [primaryKey |-> [partitionKey |-> "id"], fields |-> <<"id", "email">>]]

\* the texts a schema file may hold: no JSON, the JSON of a valid schema, the
\* JSON of a document without its entity
SchemaTexts == {"{ invalid json", "valid schema", "schema without entity"}

\* the schema file named on the command line: whether existsSync finds it,
\* whether readFileSync can read it, and its text
SchemaFiles == [exists : BOOLEAN, readable : BOOLEAN, text : SchemaTexts]

\* fs.readFileSync(path.resolve(schemaFile), 'utf-8')
ReadFileSync(file) == IF file.readable THEN Return(file.text) ELSE Throw("EACCES")

\* JSON.parse
JsonParse(text) ==
  IF text = "valid schema" THEN Return(ValidSchemaDocument)
  ELSE IF text = "schema without entity"
  THEN Return([schemaVersion |-> "v1", entity |-> Undefined])
  ELSE Throw("SyntaxError")

\* validateSchema of the bprint spec package: the validated schema, or it throws
ValidateSchema(schema) ==
  IF schema.entity = Undefined THEN Throw("ValidationError") ELSE Return(schema)

\* the catch block of validateCommand
SchemaValidationFailed(out) ==
  [output |-> Append(out, Line("Schema validation failed")), exitCalls |-> <<1>>]

\* validateCommand: what it prints and the exit codes it asks for
ValidateCommandNoCatchExit(file) ==
  LET started == <<Line("Validating schema")>>
      schemaContent == ReadFileSync(file)
      schema == JsonParse(schemaContent.value)
      validatedSchema == ValidateSchema(schema.value)
  IN  IF ~file.exists
      THEN [output |-> Append(started, Line("Error: Schema file not found")),
            exitCalls |-> <<1>>]
      ELSE IF \/ IsThrow(schemaContent)
              \/ IsThrow(schema)
              \/ IsThrow(validatedSchema)
      THEN [output |-> Append(started, Line("Schema validation failed")),
            exitCalls |-> <<>>]
      ELSE [output |-> started \o <<Line("Schema is valid"),
                                    [msg |-> "Entity",
                                     value |-> validatedSchema.value.entity.primaryKey.partitionKey],
                                    [msg |-> "Version",
                                     value |-> validatedSchema.value.schemaVersion],
                                    [msg |-> "Fields",
                                     value |-> Len(validatedSchema.value.entity.fields)]>>,
            exitCalls |-> <<>>]
ValidateCommand(file) ==
  LET started == <<Line("Validating schema")>>
      schemaContent == ReadFileSync(file)
      schema == JsonParse(schemaContent.value)
      validatedSchema == ValidateSchema(schema.value)
  IN  IF ~file.exists
      THEN [output |-> Append(started, Line("Error: Schema file not found")),
            exitCalls |-> <<1>>]
      ELSE IF \/ IsThrow(schemaContent)
              \/ IsThrow(schema)
              \/ IsThrow(validatedSchema)
      THEN SchemaValidationFailed(started)
      ELSE [output |-> started \o <<Line("Schema is valid"),
                                    [msg |-> "Entity",
                                     value |-> validatedSchema.value.entity.primaryKey.partitionKey],
                                    [msg |-> "Version",
                                     value |-> validatedSchema.value.schemaVersion],
                                    [msg |-> "Fields",
                                     value |-> Len(validatedSchema.value.entity.fields)]>>,
            exitCalls |-> <<>>]

ApplyValidateCommand ==
  /\ fnInput.op = "validateCommand"
  /\ fnResult = NotApplied
  /\ fnResult' = ValidateCommand(fnInput.schemaFile)
  /\ UNCHANGED <<dirVars, cmdVars, fnInput>>

----------------------------------------------------------------------------
(* Calls of the pure functions *)

\* no directory is read
DirIdle ==
  /\ snapshotDirExists = FALSE
  /\ modeDirs = {}
  /\ entries = <<>>
  /\ last = NoCall
  /\ rerun = NoCall

\* the calls made: the function and its arguments
FnInputs ==
  {[op |-> "validate", group |-> g] : g \in Groups}
  \cup UNION {{[op |-> "planGroup", group |-> g, colliding |-> c] :
                c \in SUBSET {i \in DOMAIN g : g[i].action # "DELETE"}} : g \in Groups}
  \cup {[op |-> "tableIdentity", first |-> a, second |-> b] :
          a \in IdentityFields, b \in IdentityFields}
  \cup {[op |-> "detectCollisions", fields |-> f, language |-> l] :
          f \in FieldLists, l \in Languages}
  \cup {[op |-> "resolveRegion", dataStore |-> [UsersDataStore EXCEPT !.region = r],
           context |-> c, env |-> e] :
          r \in DeclaredRegions, c \in StackContexts, e \in Environments}
  \cup {[op |-> "validateCommand", schemaFile |-> f] : f \in SchemaFiles}
  \cup {[op |-> "printSnapshotNotFoundError", stackName |-> f, locations |-> l,
           first |-> a, others |-> b] :
          f \in {<<>>, StackA}, l \in 0..MaxLocations, a \in 1..MaxEntities, b \in 1..2}

InitFn ==
  /\ DirIdle
  /\ CmdIdle
  /\ fnInput \in FnInputs
  /\ fnResult = NotApplied

NextFn ==
  \/ ApplyValidate
  \/ ApplyPlanGroup
  \/ ApplyTableIdentity
  \/ ApplyDetectCollisions
  \/ ApplyResolveRegion
  \/ ApplyValidateCommand
  \/ ApplyPrintSnapshotNotFoundError

SpecFn == InitFn /\ [][NextFn]_vars

----------------------------------------------------------------------------
(* What the directory holds, told from the way chaim-cdk builds file names *)

\* the stacks that own files in the directories of the model
Stacks == {StackA, StackB}

\* path p is a well-formed snapshot of the stack: a regular file whose name is
\* <stack>.json under preview, <stack>-<uuid>.json under registered
IsSnapshotOf(p, stack) ==
  /\ p \in DOMAIN entries
  /\ entries[p].isFile
  /\ stack # <<>>
  /\ \/ p[1] = "preview" /\ p[2] = PreviewName(stack)
     \/ p[1] = "registered" /\ \E u \in Uuids : p[2] = RegisteredName(stack, u)

\* the well-formed snapshots of a mode that pass the stack filter
Candidates(mode, stackFilter) ==
  {p \in DOMAIN entries :
     /\ p[1] = mode
     /\ \E stack \in Stacks : (stackFilter \in {<<>>, stack}) /\ IsSnapshotOf(p, stack)}

\* the modes a request looks at
ModesConsidered(requestedMode) ==
  IF requestedMode = "auto" THEN SnapshotMode ELSE {requestedMode}

Resolved == last.op = "resolveSnapshot"
Found(call) == call.out.kind = "return" /\ call.out.value # Undefined
NotFound(call) == call.out.kind = "return" /\ call.out.value = Undefined

----------------------------------------------------------------------------
(* Claims *)

\* C1: in auto mode, with or without a stack filter, resolveSnapshot returns a
\* result with modeUsed = 'registered' whenever a well-formed registered snapshot
\* passing the filter exists, whatever the preview directory holds.
C1_AutoPrefersRegistered ==
  (Resolved /\ last.mode = "auto" /\ Candidates("registered", last.stackName) # {})
    => (Found(last) /\ last.out.value.modeUsed = "registered")

\* a registered snapshot is chosen although a strictly newer preview snapshot
\* of the same stack exists
C1_Witness ==
  /\ Resolved /\ last.mode = "auto"
  /\ Found(last) /\ last.out.value.modeUsed = "registered"
  /\ \E p \in Candidates("preview", last.stackName) :
       entries[p].mtime > entries[last.out.value.filePath].mtime

\* C2: in auto mode, with or without a stack filter, when no well-formed
\* registered snapshot passes the filter and a preview snapshot does,
\* resolveSnapshot returns the most recently modified preview snapshot with
\* modeUsed = 'preview', never 'not found'.
C2_AutoFallsBackToPreview ==
  (Resolved /\ last.mode = "auto"
     /\ Candidates("registered", last.stackName) = {}
     /\ Candidates("preview", last.stackName) # {})
    => /\ Found(last)
       /\ last.out.value.modeUsed = "preview"
       /\ last.out.value.filePath \in Candidates("preview", last.stackName)
       /\ \A p \in Candidates("preview", last.stackName) :
            entries[p].mtime <= entries[last.out.value.filePath].mtime

\* C3: with requested mode 'preview' or 'registered', a result is a file of that
\* mode's directory with modeUsed equal to the requested mode, and the call
\* returns 'not found' when that mode has no matching snapshot, whatever the
\* other mode's directory holds.
C3_ExplicitModeOnly ==
  (Resolved /\ last.mode \in SnapshotMode)
    => /\ last.out.kind = "return"
       /\ Found(last) => /\ last.out.value.modeUsed = last.mode
                         /\ last.out.value.filePath[1] = last.mode
                         /\ last.out.value.filePath \in Candidates(last.mode, last.stackName)
       /\ Candidates(last.mode, last.stackName) = {} => NotFound(last)

\* 'not found' for the requested mode while the other mode holds a matching
\* snapshot
C3_Witness ==
  /\ Resolved /\ last.mode \in SnapshotMode /\ NotFound(last)
  /\ \E m \in SnapshotMode \ {last.mode} : Candidates(m, last.stackName) # {}

\* C4: with a stack filter S, a result has stackName = S, and when no snapshot
\* of stack S exists in the modes considered the call returns 'not found', never
\* a snapshot of another stack.
C4_StackFilter ==
  (Resolved /\ Truthy(last.stackName))
    => /\ last.out.kind = "return"
       /\ Found(last) => /\ last.out.value.stackName = last.stackName
                         /\ IsSnapshotOf(last.out.value.filePath, last.stackName)
       /\ (\A m \in ModesConsidered(last.mode) : Candidates(m, last.stackName) = {})
            => NotFound(last)

\* 'not found' for a stack filter while snapshots of another stack exist in a
\* mode that was considered
C4_Witness ==
  /\ Resolved /\ Truthy(last.stackName) /\ NotFound(last)
  /\ \E m \in ModesConsidered(last.mode) : Candidates(m, <<>>) # {}

\* C5: listSnapshots returns its entries in non-increasing order of modification
\* time, and the snapshot chosen by getLatestSnapshot / resolveSnapshot is at
\* least as recent as every other candidate of the selected mode that passes
\* the stack filter.
C5_NewestFirst ==
  /\ (last.op = "listSnapshots" /\ last.out.kind = "return")
       => \A i, j \in 1..Len(last.out.value) :
            i < j => last.out.value[i].mtime >= last.out.value[j].mtime
  /\ (last.op = "getLatestSnapshot" /\ Found(last))
       => \A p \in Candidates(last.mode, last.stackName) :
            entries[p].mtime <= last.out.value.mtime
  /\ (Resolved /\ Found(last))
       => \A p \in Candidates(last.out.value.modeUsed, last.stackName) :
            entries[p].mtime <= entries[last.out.value.filePath].mtime

\* a listing of two or more snapshots whose first is strictly newer than its last
C5_Witness ==
  /\ last.op = "listSnapshots" /\ last.out.kind = "return"
  /\ Len(last.out.value) >= 2
  /\ last.out.value[1].mtime > last.out.value[Len(last.out.value)].mtime

\* C6: two runs of resolveSnapshot over the same files with the same
\* modification times select the same file, also when several candidates share
\* the newest modification time and the directory listing enumerates them in
\* another order.
C6_Deterministic ==
  rerun # NoCall => rerun.out = last.out

\* C7: listSnapshots(dir, mode) yields one entry for exactly the regular files
\* whose name matches the mode's pattern (preview: <stack>.json with a non-empty
\* stack; registered: <stack>-<uuid>.json, the uuid becoming eventId); every
\* other entry is skipped without an error, so a directory holding only
\* registered/A-<not-a-uuid>.json resolves to 'not found'.
C7_StrictPatterns ==
  /\ last.op = "listSnapshots"
       => /\ last.out.kind = "return"
          /\ {last.out.value[i].filePath : i \in 1..Len(last.out.value)}
               = Candidates(last.mode, <<>>)
          /\ Len(last.out.value) = Cardinality(Candidates(last.mode, <<>>))
          /\ \A i \in 1..Len(last.out.value) :
               LET e == last.out.value[i]
               IN  /\ e.mode = last.mode
                   /\ e.mtime = entries[e.filePath].mtime
                   /\ last.mode = "preview" => e.filePath[2] = PreviewName(e.stackName)
                   /\ last.mode = "registered"
                        => e.filePath[2] = RegisteredName(e.stackName, e.eventId)
  /\ (Resolved /\ DOMAIN entries = {<<"registered", RegisteredName(StackA, NotAUuid)>>})
       => NotFound(last)

\* a registered listing that keeps a well-formed file and skips, in the same
\* directory, a regular file whose last part is no UUID
C7_Witness ==
  /\ last.op = "listSnapshots" /\ last.mode = "registered"
  /\ last.out.kind = "return" /\ Len(last.out.value) = 1
  /\ <<"registered", RegisteredName(StackA, NotAUuid)>> \in DOMAIN entries
  /\ entries[<<"registered", RegisteredName(StackA, NotAUuid)>>].isFile

\* C8: when the snapshot root or a mode directory does not exist, discovery does
\* not fail: for that mode listSnapshots returns an empty list, hasSnapshots
\* false, getLatestSnapshot undefined, and resolveSnapshot returns 'not found'
\* for every stack filter when no directory it considers exists, without
\* reading any file.
C8_MissingDirectory ==
  /\ last.out.kind = "return"
  /\ (last.op = "listSnapshots" /\ ~ExistsSync(last.mode)) => last.out.value = <<>>
  /\ (last.op = "hasSnapshots" /\ ~ExistsSync(last.mode)) => last.out.value = FALSE
  /\ (last.op = "getLatestSnapshot" /\ ~ExistsSync(last.mode)) => last.out.value = Undefined
  /\ (Resolved /\ \A m \in ModesConsidered(last.mode) : ~ExistsSync(m))
       => (NotFound(last) /\ last.out.reads = {})

\* 'not found' for a mode whose directory is missing while the other mode's
\* directory holds a snapshot
C8_Witness ==
  /\ Resolved /\ last.mode \in SnapshotMode /\ ~ExistsSync(last.mode)
  /\ NotFound(last) /\ last.out.reads = {}
  /\ \E m \in SnapshotMode : Candidates(m, <<>>) # {}

----------------------------------------------------------------------------
(* Claims about the generate command *)

\* discovery was asked and found no matching snapshot
NoMatchingSnapshot ==
  \/ command = "generate.ts" /\ resolvedSnapshot = Undefined
  \/ /\ command = "validate.ts"
     /\ \E t \in DOMAIN trace : trace[t].fn = "resolveAllSnapshots"
     /\ resolvedSnapshots = <<>>

\* the generator was called
GeneratorInvoked == \E t \in DOMAIN trace : trace[t].fn = "generate"

C10_FailureDoesNotStopTheRest ==
  (command = "validate.ts" /\ pc \in {"exited", "returned"}) =>
    \A i \in DOMAIN resolvedSnapshots :
      resolvedSnapshots[i].snapshot.dataStore # Undefined =>
        \E t \in DOMAIN trace : trace[t] = [fn |-> "generate", index |-> i]

\* generateFromSnapshots went through both loops and printed its summary
SummaryPrinted ==
  /\ command = "validate.ts"
  /\ \E i \in DOMAIN output : output[i].msg = "total"

\* a recorded result is a failure
SomeResultFailed == \E r \in DOMAIN results : ~results[r].success

\* C11: once every snapshot has been processed and the summary is printed, the
\* process has ended through process.exit(1) exactly when some recorded result
\* is a failure; when every result is a success the command has returned and
\* process.exit was not called.
C11_ExitOneIffFailure ==
  SummaryPrinted =>
    /\ Len(results) = Len(resolvedSnapshots)
    /\ SomeResultFailed => (pc = "exited" /\ exitCalls = <<1>>)
    /\ ~SomeResultFailed => (pc = "returned" /\ exitCalls = <<>>)

\* a run with one success and one failure recorded, ended with exit status 1
C11_Witness ==
  /\ SummaryPrinted
  /\ \E r \in DOMAIN results : results[r].success
  /\ SomeResultFailed
  /\ pc = "exited"

\* the physical table a resolved snapshot is bound to
TableOf(snap) == <<snap.accountId, snap.region, snap.resourceName>>

\* the positions of the list bound to the table
BoundTo(table) ==
  {i \in DOMAIN resolvedSnapshots : TableOf(resolvedSnapshots[i]) = table}

\* the key schema of the table group is consistent: its entities that carry a
\* schema declare the same primary key
KeysConsistent(table) ==
  \A i, j \in BoundTo(table) :
    (resolvedSnapshots[i].snapshot.schema # Undefined
       /\ resolvedSnapshots[j].snapshot.schema # Undefined) =>
      resolvedSnapshots[i].snapshot.schema.primaryKey
        = resolvedSnapshots[j].snapshot.schema.primaryKey

\* the calls of the generator made for snapshots of the table
GenerateCallsFor(table) ==
  {t \in DOMAIN trace : trace[t].fn = "generate" /\ trace[t].index \in BoundTo(table)}

\* C12: when the run has printed its summary, the generator has been invoked
\* exactly once for every table group with a consistent key schema, however
\* many entities are bound to the table.
C12_OneCallPerTableGroup ==
  SummaryPrinted =>
    \A i \in DOMAIN resolvedSnapshots :
      KeysConsistent(TableOf(resolvedSnapshots[i])) =>
        Cardinality(GenerateCallsFor(TableOf(resolvedSnapshots[i]))) = 1

\* C13: the generator is never invoked for a resolved snapshot whose action is
\* DELETE.
C13_DeleteNeverGenerated ==
  command = "validate.ts" =>
    \A t \in DOMAIN trace :
      trace[t].fn = "generate" =>
        resolvedSnapshots[trace[t].index].snapshot.action # "DELETE"

----------------------------------------------------------------------------
(* Claims about the pure functions *)

\* the positions of a group whose entry is not a DELETE
NonDeleted(group) == {i \in DOMAIN group : group[i].action # "DELETE"}

\* the least element of a non-empty set of numbers
Least(S) == CHOOSE m \in S : \A x \in S : m <= x

\* entries i and j of the group name the same partition key and the same sort key
SameKeys(group, i, j) ==
  /\ group[i].partitionKey = group[j].partitionKey
  /\ group[i].sortKey = group[j].sortKey

\* C14: validate returns ok exactly when all entries of the group that are not
\* DELETE entries name the same partition key and the same sort key (absent
\* being a value of its own); otherwise it fails with the keys of the first such
\* entry as the expected key and the first entry that differs from them as the
\* entity found.
C14_KeyConsistency ==
  (fnInput.op = "validate" /\ fnResult # NotApplied) =>
    LET group == fnInput.group
        kept == NonDeleted(group)
        agree == \A i, j \in kept : SameKeys(group, i, j)
    IN  /\ fnResult.ok = agree
        /\ ~agree =>
             LET first == Least(kept)
                 divergent == Least({i \in kept : ~SameKeys(group, first, i)})
             IN  /\ fnResult.entityName = EntityNames[divergent]
                 /\ fnResult.expected = [partitionKey |-> group[first].partitionKey,
                                         sortKey |-> group[first].sortKey]
                 /\ fnResult.found = [partitionKey |-> group[divergent].partitionKey,
                                      sortKey |-> group[divergent].sortKey]

\* validate failed on a group that opens with a DELETE entry and whose two
\* other entries differ in the sort key alone, one of them declaring none
C14_Witness ==
  /\ fnInput.op = "validate"
  /\ fnResult # NotApplied
  /\ Len(fnInput.group) = 3
  /\ fnInput.group[1].action = "DELETE"
  /\ fnInput.group[2].partitionKey = fnInput.group[3].partitionKey
  /\ fnInput.group[2].sortKey = Absent
  /\ fnInput.group[3].sortKey # Absent
  /\ ~fnResult.ok

\* the generator calls of a plan that carry the schema of position i
CallsCarrying(plan, i) ==
  {c \in DOMAIN plan.calls : \E k \in DOMAIN plan.calls[c] : plan.calls[c][k] = i}

Grouped == GroupBy(GroupKeys(resolvedSnapshots))

\* the places <<g, k>> of the groups that hold position i of the list
PlacesOf(grouped, i) ==
  {gk \in UNION {{<<g, k>> : k \in DOMAIN grouped[g].members} : g \in DOMAIN grouped} :
     grouped[gk[1]].members[gk[2]] = i}

\* C16: the groups partition the list: every snapshot of the list sits at
\* exactly one place of exactly one group, every member of a group is a snapshot
\* of the list, and the members of a group follow each other in list order.
C16_GroupingIsPartition ==
  (command = "validate.ts" /\ pc = "generateFromSnapshots") =>
    /\ \A i \in DOMAIN resolvedSnapshots : Cardinality(PlacesOf(Grouped, i)) = 1
    /\ \A g \in DOMAIN Grouped :
         /\ \A k \in DOMAIN Grouped[g].members :
              Grouped[g].members[k] \in DOMAIN resolvedSnapshots
         /\ \A k, l \in DOMAIN Grouped[g].members :
              k < l => Grouped[g].members[k] < Grouped[g].members[l]

\* three snapshots of stacks A, B, A: two groups, the first holding the first and
\* the third snapshot
C16_Witness ==
  /\ command = "validate.ts"
  /\ pc = "generateFromSnapshots"
  /\ Len(resolvedSnapshots) = 3
  /\ resolvedSnapshots[1].stackName = resolvedSnapshots[3].stackName
  /\ resolvedSnapshots[1].stackName # resolvedSnapshots[2].stackName
  /\ Len(Grouped) = 2
  /\ Grouped[1].members = <<1, 3>>

\* the value can serve as identity: it is there and holds no unresolved token
Trusted(value) == value # <<>> /\ \A i \in DOMAIN value : value[i] # TokenMarker

\* the identity expected for a snapshot, by priority
ExpectedIdentity(snap, identity) ==
  /\ Trusted(snap.resourceId) => identity = snap.resourceId
  /\ (~Trusted(snap.resourceId) /\ Trusted(snap.arn)) => identity = snap.arn
  /\ (~Trusted(snap.resourceId) /\ ~Trusted(snap.arn)) =>
       identity = <<snap.accountId, ":", snap.region, ":", snap.resourceName>>

ResolvingTo(mappings, identifier) ==
  {i \in DOMAIN mappings : mappings[i].resolved = identifier}

\* the collisions reported for the identifier
ReportsOf(collisions, identifier) ==
  {k \in DOMAIN collisions : collisions[k].identifier = identifier}

\* the detector has been applied to the fields of an entity
Detected == fnInput.op = "detectCollisions" /\ fnResult # NotApplied

RegionResolved == fnInput.op = "resolveRegion" /\ fnResult # NotApplied

\* the region is declared: present and not the sentinel
Declared(region) == region # "" /\ region # "unknown"

\* C19: resolveRegion returns the declared region when it is present and not
\* "unknown"; otherwise AWS_REGION if set, otherwise AWS_DEFAULT_REGION if set,
\* otherwise "us-east-1"; and when neither environment variable holds
\* "unknown", the region of the table metadata is neither "unknown" nor empty.
C19_RegionResolution ==
  RegionResolved =>
    LET declared == fnInput.dataStore.region
        env == fnInput.env
    IN /\ Declared(declared) => fnResult.region = declared
       /\ ~Declared(declared) /\ env.AWS_REGION # ""
            => fnResult.region = env.AWS_REGION
       /\ ~Declared(declared) /\ env.AWS_REGION = "" /\ env.AWS_DEFAULT_REGION # ""
            => fnResult.region = env.AWS_DEFAULT_REGION
       /\ ~Declared(declared) /\ env.AWS_REGION = "" /\ env.AWS_DEFAULT_REGION = ""
            => fnResult.region = "us-east-1"
       /\ env.AWS_REGION # "unknown" /\ env.AWS_DEFAULT_REGION # "unknown"
            => /\ ~IsThrow(fnResult.metadata)
               /\ fnResult.metadata.value.region \notin {"unknown", ""}

\* a snapshot synthesized with unresolved tokens, in a process without region
\* variables: the default region reaches the table metadata
C19_Witness ==
  /\ RegionResolved
  /\ fnInput.dataStore.region = "unknown"
  /\ fnInput.context # Undefined
  /\ fnInput.context.region = "unknown"
  /\ fnInput.env = [AWS_REGION |-> "", AWS_DEFAULT_REGION |-> ""]
  /\ fnResult.region = "us-east-1"
  /\ fnResult.metadata = Return([tableName |-> "Users", region |-> "us-east-1"])


\* the snapshots of the list that lack their dataStore block
Malformed ==
  {i \in DOMAIN resolvedSnapshots : resolvedSnapshots[i].snapshot.dataStore = Undefined}

\* a failure is recorded for the entity of the snapshot
FailureRecordedFor(i) ==
  \E r \in DOMAIN results :
    /\ results[r].entity = resolvedSnapshots[i].entityName
    /\ results[r].resource = resolvedSnapshots[i].resourceName
    /\ ~results[r].success

\* C20: when generateFromSnapshots is over for a list holding a snapshot
\* without its dataStore block, a failure is recorded for that entity and the
\* final summary has been printed: the run was not aborted.
C20_MalformedIsRecordedFailure ==
  (command = "validate.ts" /\ pc \in {"exited", "returned"} /\ Malformed # {}) =>
    /\ SummaryPrinted
    /\ \A i \in Malformed : FailureRecordedFor(i)


\* the calls of the generator, in the order they were made
GeneratorCalls == SelectSeq(trace, LAMBDA t : t.fn = "generate")

\* the first snapshot of the list in the group of the i-th
FirstOfGroup(i) ==
  Least({j \in DOMAIN resolvedSnapshots :
           GroupKey(resolvedSnapshots[j]) = GroupKey(resolvedSnapshots[i])})

\* the i-th snapshot comes before the j-th: its group was discovered earlier,
\* or both are in one group and it is earlier in the list
ComesBefore(i, j) ==
  \/ FirstOfGroup(i) < FirstOfGroup(j)
  \/ FirstOfGroup(i) = FirstOfGroup(j) /\ i < j

\* C21: when generateFromSnapshots has printed its summary, the generator has
\* been called exactly once for every resolved snapshot, the result list holds
\* one entry per call, in the order of the calls, and that order is group
\* discovery order, then input order inside a group.
C21_OneResultPerSnapshotInOrder ==
  SummaryPrinted =>
    /\ Len(results) = Len(resolvedSnapshots)
    /\ Len(GeneratorCalls) = Len(results)
    /\ \A i \in DOMAIN resolvedSnapshots :
         Cardinality({k \in DOMAIN GeneratorCalls : GeneratorCalls[k].index = i}) = 1
    /\ \A k \in DOMAIN results :
         /\ results[k].entity = resolvedSnapshots[GeneratorCalls[k].index].entityName
         /\ results[k].resource = resolvedSnapshots[GeneratorCalls[k].index].resourceName
    /\ \A k, l \in DOMAIN GeneratorCalls :
         k < l => ComesBefore(GeneratorCalls[k].index, GeneratorCalls[l].index)

\* three snapshots of stacks A, B, A: the third is generated second, its
\* failure is recorded once and the second snapshot follows
C21_Witness ==
  /\ SummaryPrinted
  /\ Len(resolvedSnapshots) = 3
  /\ resolvedSnapshots[1].stackName = "StackA"
  /\ resolvedSnapshots[2].stackName = "StackB"
  /\ resolvedSnapshots[3].stackName = "StackA"
  /\ GeneratorCalls = <<[fn |-> "generate", index |-> 1], [fn |-> "generate", index |-> 3],
                        [fn |-> "generate", index |-> 2]>>
  /\ ~results[2].success
  /\ results[3].success


\* the modes resolveSnapshot was called with
ModesHandedOver == {trace[t].mode : t \in {u \in DOMAIN trace : trace[u].fn = "resolveSnapshot"}}

\* the value of --mode is one the command knows, or absent
KnownMode == options.mode \in {"", "auto", "preview", "registered"}

\* generateCommand of generate.ts is past normalizeMode
PastNormalizeMode ==
  command = "generate.ts" /\ pc \notin {"generateCommand", "runPreGenerationChecks", "resolve"}

\* C22: resolveSnapshot is only ever handed 'auto', 'preview' or 'registered':
\* 'auto' for an absent --mode or 'auto', the value itself for 'preview' and
\* 'registered'; any other value ends generateCommand with exit status 1, no
\* snapshot resolved and the generator not invoked.
C22_ModeNormalized ==
  command = "generate.ts" =>
    /\ ModesHandedOver \subseteq {"auto", "preview", "registered"}
    /\ options.mode \in {"", "auto"} => ModesHandedOver \subseteq {"auto"}
    /\ options.mode \in {"preview", "registered"} => ModesHandedOver \subseteq {options.mode}
    /\ ~KnownMode =>
         /\ ModesHandedOver = {}
         /\ ~GeneratorInvoked
         /\ PastNormalizeMode =>
              /\ pc = "exited"
              /\ exitCalls = <<1>>

\* --mode latest with the checks passed: the command ended at normalizeMode
C22_Witness ==
  /\ command = "generate.ts"
  /\ options.mode = "latest"
  /\ ~options.skipChecks
  /\ pc = "exited"
  /\ exitCalls = <<1>>
  /\ trace = <<[fn |-> "doctorCommand"]>>
  /\ output[Len(output)] = Line("Error: Invalid mode")


\* C23: without --package, generateCommand (of generate.ts and of validate.ts)
\* exits with status 1 as its first step: the environment checks are not run,
\* no snapshot is resolved, the generator is never invoked.
C23_PackageRequiredFirst ==
  (command \in Commands /\ options.package = "") =>
    /\ trace = <<>>
    /\ pc \in {"generateCommand", "exited"}
    /\ pc = "exited" =>
         /\ exitCalls = <<1>>
         /\ output = <<Line("Error: --package is required")>>

\* a run without --package and without skipChecks has ended
C23_Witness ==
  /\ command \in Commands
  /\ options.package = ""
  /\ ~options.skipChecks
  /\ pc = "exited"
  /\ exitCalls = <<1>>
  /\ trace = <<>>


\* the positions of the trace where doctorCommand was called
DoctorCalls == {t \in DOMAIN trace : trace[t].fn = "doctorCommand"}

\* the positions of the trace where a snapshot was resolved
ResolveCalls ==
  {t \in DOMAIN trace : trace[t].fn \in {"resolveSnapshot", "resolveAllSnapshots"}}

\* the environment checks have failed
ChecksFailed == \E i \in DOMAIN output : output[i] = Line("Pre-generation checks failed")

\* C24: without skipChecks, a generateCommand that has its package runs
\* doctorCommand exactly once, before any snapshot is resolved; with skipChecks
\* it never runs it; when the checks fail the command exits with status 1, no
\* snapshot resolved and the generator not invoked.
C24_ChecksOnceAndFirst ==
  command \in Commands =>
    /\ options.skipChecks => DoctorCalls = {}
    /\ Cardinality(DoctorCalls) <= 1
    /\ \A d \in DoctorCalls : \A t \in ResolveCalls : d < t
    /\ (~options.skipChecks /\ options.package # ""
          /\ pc \notin {"generateCommand", "runPreGenerationChecks"})
         => Cardinality(DoctorCalls) = 1
    /\ ~options.skipChecks => (ResolveCalls # {} \/ GeneratorInvoked => DoctorCalls # {})
    /\ ChecksFailed =>
         /\ pc = "exited"
         /\ exitCalls = <<1>>
         /\ ResolveCalls = {}
         /\ ~GeneratorInvoked

\* the checks failed and the command ended there
C24_Witness ==
  /\ command \in Commands
  /\ ~options.skipChecks
  /\ ChecksFailed
  /\ trace = <<[fn |-> "doctorCommand"]>>
  /\ pc = "exited"
  /\ exitCalls = <<1>>


\* C25: whenever the context region is declared and is not "unknown", the
\* region of the table metadata of validate.ts is the context region, whatever
\* the dataStore block declares.
C25_ContextRegionPreferred ==
  (/\ RegionResolved
   /\ fnInput.context # Undefined
   /\ ~IsThrow(fnResult.metadata))
  => (Declared(fnInput.context.region)
        => fnResult.metadata.value.region = fnInput.context.region)


\* C26: hasSnapshots(dir, mode) returns true exactly when listSnapshots(dir,
\* mode) is non-empty, whatever the directory holds.
C26_HasSnapshotsIffListed ==
  (last.op = "hasSnapshots" /\ ~IsThrow(last.out)) =>
    \A files \in Orderings(NamesIn(last.mode)) :
      LET listed == ListSnapshots(last.mode, files)
      IN  /\ ~IsThrow(listed)
          /\ last.out.value <=> (listed.value # <<>>)


\* the diagnostic of validate.ts has been printed for a cache of snapshots
DiagnosticPrinted == fnInput.op = "printSnapshotNotFoundError" /\ fnResult # NotApplied

\* the positions of the diagnostic that hold a line of the kind
LinesOf(msg) == {i \in DOMAIN fnResult.lines : fnResult.lines[i].msg = msg}

\* the entities listed for the table of a location
ListedFor(location) ==
  {i \in LinesOf("entity") : fnResult.lines[i].resourceName = LocationTables[location]}

\* the number of snapshots the location holds
HeldBy(location) == IF location = 1 THEN fnInput.first ELSE fnInput.others

\* the smaller of two numbers
Min(a, b) == IF a < b THEN a ELSE b

Validated == fnInput.op = "validateCommand" /\ fnResult # NotApplied

\* the schema file exists, can be read, holds JSON, and the JSON is a schema
SchemaFileIsGood ==
  /\ fnInput.schemaFile.exists
  /\ fnInput.schemaFile.readable
  /\ fnInput.schemaFile.text = "valid schema"

\* C28: validateCommand asks for exit status 1, once, exactly when the schema
\* file does not exist, cannot be read, is no JSON or is rejected by
\* validateSchema; otherwise it prints the success summary and never calls exit.
C28_ValidateExitsIffBad ==
  Validated =>
    IF SchemaFileIsGood
    THEN /\ fnResult.exitCalls = <<>>
         /\ \E i \in DOMAIN fnResult.output : fnResult.output[i] = Line("Schema is valid")
         /\ \E i \in DOMAIN fnResult.output :
              fnResult.output[i].msg = "Fields" /\ fnResult.output[i].value = 2
    ELSE /\ fnResult.exitCalls = <<1>>
         /\ \A i \in DOMAIN fnResult.output : fnResult.output[i] # Line("Schema is valid")

\* a readable file that holds no JSON: exit 1 through the catch block
C28_Witness ==
  /\ Validated
  /\ fnInput.schemaFile = [exists |-> TRUE, readable |-> TRUE, text |-> "{ invalid json"]
  /\ fnResult.exitCalls = <<1>>
  /\ fnResult.output[Len(fnResult.output)] = Line("Schema validation failed")


\* generateCommand is past runPreGenerationChecks
ChecksRun == \E t \in DOMAIN trace : trace[t].fn = "doctorCommand"

\* C29: runPreGenerationChecks leaves the console as it found it, whether
\* doctorCommand resolves or rejects: once it is over the console is not
\* muted, and after a failed check the 'Generation failed' message of
\* generateCommand is on the terminal.
C29_ConsoleRestored ==
  (command \in Commands /\ ChecksRun) =>
    /\ ~consoleMuted
    /\ ChecksFailed => \E i \in DOMAIN output : output[i] = GenerationFailed


\* the marker the summary shows for the i-th snapshot of the list
MarkerShown(i, marker) ==
  \E j \in DOMAIN output :
    /\ output[j].msg \in {"ok", "failed"}
    /\ output[j].index = i
    /\ output[j].msg = marker

\* C30: in the summary of generateFromSnapshots the marker of every snapshot is
\* the outcome of that snapshot's own generation, also when several snapshots
\* carry the same entityName and resourceName.
C30_MarkerIsOwnOutcome ==
  SummaryPrinted =>
    \A k \in DOMAIN GeneratorCalls :
      k \in DOMAIN results =>
        MarkerShown(GeneratorCalls[k].index, IF results[k].success THEN "ok" ELSE "failed")

====
